---- MODULE Spec2Model ----
(***************************************************************************)
(* The log acquisition pipeline of Elfexplore.py: the two remote calls     *)
(* (_call_logs_API, _call_ids_API), exponential_backoff, fetch_IDs,        *)
(* fetch_logs and the scrape_log loop with its persisted parquet table.    *)
(* The remote service is the environment: every requests.post either       *)
(* fails at connection level or returns a response (status, body kind).    *)
(***************************************************************************)
EXTENDS Integers, Sequences, FiniteSets, TLC

VARIABLES
    corpus,         \* the remote's encounters, ids 1..Len(corpus) ascending
    persisted,      \* ./data/<key>.parquet, a sequence of rows (<<>>: no file)
    longCsv,        \* ./data_long/<key>_long.csv exists
    run,            \* number of the scrape_log invocation under way
    last,           \* how the previous invocation ended
    persisted0,     \* the parquet table when this invocation started
    from_scratch, force, page_size, max_logs,   \* arguments of scrape_log
    df, oldIDs, newLogsParsed, logIDs, short_log, \* locals of scrape_log
    batches,        \* completed loop iterations of this invocation
    pc,             \* position in scrape_log / fetch_IDs / fetch_logs
    outcome,        \* "running", how the loop ended, or the exception raised
    r,              \* local r of fetch_IDs / fetch_logs / exponential_backoff
    tries, total_time,  \* locals of exponential_backoff
    trace,          \* requests, responses and sleeps of the current fetch
    observe,        \* whether trace is recorded
    faultsLeft,     \* faulty answers the remote may still give
    answer,         \* what the user answers to click.confirm
    input,          \* argument of the function called on its own
    result          \* what that function returned or raised

vars == <<corpus, persisted, longCsv, run, last, persisted0, from_scratch,
          force, page_size, max_logs, df, oldIDs, newLogsParsed, logIDs,
          short_log, batches, pc, outcome, r, tries, total_time, trace,
          observe, faultsLeft, answer, input, result>>

remoteVars == <<corpus>>
fileVars == <<persisted, longCsv>>
runVars == <<run, last, persisted0, from_scratch, force, page_size, max_logs,
            answer>>
unitVars == <<input, result>>
loopVars == <<df, oldIDs, newLogsParsed, batches>>
backoffVars == <<tries, total_time>>

----------------------------------------------------------------------------
(* Bounds *)
MaxN == 2           \* encounters in the remote corpus
MaxRuns == 2        \* scrape_log invocations in a row
MaxBudget == 2      \* largest max_logs argument
MaxParsed == 3      \* the loop is followed while newLogsParsed < MaxParsed
MaxFaults == 1      \* faulty remote answers over the invocations
MaxFetchFaults == 3 \* faulty remote answers within one observed fetch
PageSizes == {1, 2} \* stands for Literal[10, 25]
PlayerCounts == {0, 2}  \* player records of an encounter

Cooldown == 35
RateLimited == 429
NotFound == 404

----------------------------------------------------------------------------
(* The remote *)
Statuses == {200, NotFound, RateLimited}
\* "data": the expected structure; "other": JSON of another shape;
\* "bad": not JSON
Bodies == {"data", "other", "bad"}
\* A 404 or 429 response carries an error body, never the data asked for
Responses ==
    {x \in [status : Statuses, body : Bodies] :
        x.status \in {NotFound, RateLimited} => x.body # "data"}
NoResp == [status |-> 0, body |-> "none"]
Raised(exc) == [status |-> 0, body |-> exc]
IsRaised(x) == x.status = 0 /\ x.body # "none"

Corpora ==
    UNION {[1..n -> [players : PlayerCounts]] : n \in 0..MaxN}

\* The page of ids the listing endpoint serves (sort id, ascending)
Page(c, page, size) ==
    LET lo == (page - 1) * size + 1
        hi == IF page * size < Len(c) THEN page * size ELSE Len(c)
    IN  IF lo > hi THEN <<>> ELSE [k \in 1..(hi - lo + 1) |-> lo + k - 1]

Faulty(x) == x.status \in {NotFound, RateLimited} \/ x.body # "data"
Cost(x) == IF Faulty(x) THEN 1 ELSE 0

----------------------------------------------------------------------------
(* Requests and the observed events of a fetch *)
\* json argument of requests.post: the listing body or the id list
ListRequest(page, size) ==
    [endpoint |-> "logs", json |-> <<page, size>>, serialisable |-> TRUE]
IdsRequest(ids) ==
    [endpoint |-> "ids", json |-> ids, serialisable |-> TRUE]
\* _call_ids_API(id): the builtin function id, which json cannot encode
BuiltinIdRequest ==
    [endpoint |-> "ids", json |-> <<>>, serialisable |-> FALSE]

Ev(kind, q, x, n) == [e |-> kind, q |-> q, status |-> x.status,
                      body |-> x.body, n |-> n]
CallEv(q) == Ev("call", q, NoResp, 0)         \* entry of _call_*_API
ReqEv(q) == Ev("req", q, NoResp, 0)           \* a request is sent
RespEv(q, x) == Ev("resp", q, x, 0)           \* its response arrives
FailEv(q) == Ev("fail", q, NoResp, 0)         \* it fails at connection level
SleepEv(q, n) == Ev("sleep", q, NoResp, n)    \* time.sleep(35)
WaitEv(q, n) == Ev("wait", q, NoResp, n)      \* time.sleep(wait_time)

Log(evs) == IF observe THEN trace \o evs ELSE trace

----------------------------------------------------------------------------
(* _call_logs_API / _call_ids_API: try: post; except: sleep(35); post *)
\* The runs of one requests.post(endpoint, json=q): result, events, faults
post(q) ==
    IF ~q.serialisable
    THEN \* json.dumps raises TypeError before anything is sent
         {[res |-> Raised("TypeError"), ev |-> <<>>, cost |-> 0]}
    ELSE {[res |-> x, ev |-> <<ReqEv(q), RespEv(q, x)>>, cost |-> Cost(x)] :
             x \in Responses}
         \cup
         {[res |-> Raised("ConnectionError"), ev |-> <<ReqEv(q), FailEv(q)>>,
           cost |-> 1]}

\* call_API with the retry sent at once, without the cooldown
call_API_no_cooldown(q) ==
    {[res |-> a.res, ev |-> <<CallEv(q)>> \o a.ev, cost |-> a.cost] :
        a \in {a \in post(q) : ~IsRaised(a.res)}}
    \cup
    {[res |-> b.res, ev |-> <<CallEv(q)>> \o a.ev \o b.ev,
      cost |-> a.cost + b.cost] :
        a \in {a \in post(q) : IsRaised(a.res)}, b \in post(q)}

\* The runs of one logical call
call_API(q) ==
    {[res |-> a.res, ev |-> <<CallEv(q)>> \o a.ev, cost |-> a.cost] :
        a \in {a \in post(q) : ~IsRaised(a.res)}}
    \cup
    {[res |-> b.res,
      ev |-> <<CallEv(q)>> \o a.ev \o <<SleepEv(q, Cooldown)>> \o b.ev,
      cost |-> a.cost + b.cost] :
        a \in {a \in post(q) : IsRaised(a.res)}, b \in post(q)}

call_logs_API(page, size) == call_API(ListRequest(page, size))
call_ids_API(ids) == call_API(IdsRequest(ids))

Affordable(c) == c.cost <= faultsLeft

RECURSIVE Pow2(_)
Pow2(n) == IF n = 0 THEN 1 ELSE 2 * Pow2(n - 1)

----------------------------------------------------------------------------
(* fetch_IDs *)
\* the first page asked for whatever is known
PageOf_first(parsed_logs, size) == 1

\* page = (len(parsed_logs) // page_size) + 1
PageOf(parsed_logs, size) == (Cardinality(parsed_logs) \div size) + 1

\* ids = [log["id"] for log in data["encounters"] if log["id"] not in parsed_logs]
NewIDs(encounters, parsed_logs) ==
    SelectSeq(encounters, LAMBDA i : i \notin parsed_logs)

IdsRequestNow == ListRequest(PageOf(oldIDs, page_size), page_size)
ThePage == Page(corpus, PageOf(oldIDs, page_size), page_size)

\* The function returns to scrape_log or raises: its locals are gone
Locals0 ==
    /\ r' = NoResp
    /\ tries' = 0
    /\ total_time' = 0

Raise(exc) ==
    /\ pc' = "aborted"
    /\ outcome' = exc
    /\ Locals0

\* json.loads(r.text), then the use made of data
json_loads(x) == IF x.body = "bad" THEN "JSONDecodeError" ELSE "ok"
\* encounters_of reading data.get("encounters", [])
encounters_of_lenient(x) == "ok"
encounters_of(x) == IF x.body = "data" THEN "ok" ELSE "KeyError"
ShortLogs_of(x) == IF x.body = "data" THEN "ok" ELSE "TypeError"

\* r = _call_logs_API(...); if r.status_code == 429: exponential_backoff
fetch_IDs_call ==
    /\ pc = "ids_call"
    /\ \E c \in call_logs_API(PageOf(oldIDs, page_size), page_size) :
          /\ Affordable(c)
          /\ faultsLeft' = faultsLeft - c.cost
          /\ trace' = Log(c.ev)
          /\ IF IsRaised(c.res)
             THEN Raise(c.res.body)
             ELSE /\ r' = c.res
                  /\ tries' = 0
                  /\ total_time' = 0
                  /\ pc' = IF c.res.status = RateLimited
                            THEN "ids_backoff" ELSE "ids_parse"
                  /\ UNCHANGED outcome
    /\ UNCHANGED <<remoteVars, unitVars, fileVars, runVars, loopVars, logIDs,
                   short_log, observe>>

\* the same wait at every attempt
wait_time_fixed(n) == 1

\* wait_time = 2**tries
wait_time(n) == Pow2(n)

\* exponential_backoff(fun): while True: r = fun(); 429: wait, else return
exponential_backoff ==
    /\ pc \in {"ids_backoff", "logs_backoff"}
    /\ LET q == IF pc = "ids_backoff" THEN IdsRequestNow
                ELSE IdsRequest(logIDs)
       IN \E c \in call_API(q) :
          /\ Affordable(c)
          /\ faultsLeft' = faultsLeft - c.cost
          /\ IF IsRaised(c.res)
             THEN Raise(c.res.body) /\ trace' = Log(c.ev)
             ELSE IF c.res.status = RateLimited
             THEN /\ r' = c.res
                  /\ total_time' = total_time + wait_time(tries)
                  /\ tries' = tries + 1
                  /\ trace' = Log(c.ev \o <<WaitEv(q, wait_time(tries))>>)
                  /\ UNCHANGED <<pc, outcome>>
             ELSE /\ r' = c.res
                  /\ trace' = Log(c.ev)
                  /\ pc' = IF pc = "ids_backoff"
                            THEN "ids_parse" ELSE "logs_parse"
                  /\ UNCHANGED <<tries, total_time, outcome>>
    /\ UNCHANGED <<remoteVars, unitVars, fileVars, runVars, loopVars, logIDs,
                   short_log, observe>>

\* fetch_IDs returns ids to scrape_log
ReturnIDs(ids) ==
    /\ logIDs' = ids
    /\ pc' = "got_ids"
    /\ Locals0
    /\ UNCHANGED outcome

\* try: data = json.loads(r.text) except JSONDecodeError: time.sleep(35)
fetch_IDs_parse ==
    /\ pc = "ids_parse"
    /\ IF json_loads(r) # "ok"
       THEN /\ trace' = Log(<<SleepEv(IdsRequestNow, Cooldown)>>)
            /\ pc' = "ids_retry"
            /\ UNCHANGED <<r, tries, total_time, outcome, logIDs>>
       ELSE /\ trace' = trace
            /\ IF encounters_of(r) # "ok"
               THEN Raise(encounters_of(r)) /\ UNCHANGED logIDs
               ELSE ReturnIDs(NewIDs(ThePage, oldIDs))
    /\ UNCHANGED <<remoteVars, unitVars, fileVars, runVars, loopVars, short_log,
                   observe, faultsLeft>>

\* r = _call_logs_API(...); data = json.loads(r.text)
fetch_IDs_retry ==
    /\ pc = "ids_retry"
    /\ \E c \in call_logs_API(PageOf(oldIDs, page_size), page_size) :
          /\ Affordable(c)
          /\ faultsLeft' = faultsLeft - c.cost
          /\ trace' = Log(c.ev)
          /\ IF IsRaised(c.res)
             THEN Raise(c.res.body) /\ UNCHANGED logIDs
             ELSE IF json_loads(c.res) # "ok"
             THEN Raise(json_loads(c.res)) /\ UNCHANGED logIDs
             ELSE IF encounters_of(c.res) # "ok"
             THEN Raise(encounters_of(c.res)) /\ UNCHANGED logIDs
             ELSE ReturnIDs(NewIDs(ThePage, oldIDs))
    /\ UNCHANGED <<remoteVars, unitVars, fileVars, runVars, loopVars, short_log,
                   observe>>

----------------------------------------------------------------------------
(* fetch_logs *)
\* ShortLog.to_dataframe(short=True): one row per player
to_dataframe(c, i) ==
    [k \in 1..c[i].players |-> [id |-> i, name |-> k]]

\* pd.concat([log.to_dataframe(short=True) for log in logs])
RECURSIVE concat_logs(_, _)
concat_logs(c, ids) ==
    IF ids = <<>> THEN <<>>
    ELSE to_dataframe(c, Head(ids)) \o concat_logs(c, Tail(ids))

\* fetch_logs returns a frame to scrape_log
ReturnLogs(rows) ==
    /\ short_log' = rows
    /\ pc' = "append"
    /\ Locals0
    /\ UNCHANGED outcome

\* r = _call_ids_API(ids); 429: exponential_backoff; elif 404: retry
fetch_logs_call ==
    /\ pc = "logs_call"
    /\ \E c \in call_ids_API(logIDs) :
          /\ Affordable(c)
          /\ faultsLeft' = faultsLeft - c.cost
          /\ trace' = Log(c.ev)
          /\ IF IsRaised(c.res)
             THEN Raise(c.res.body)
             ELSE /\ r' = c.res
                  /\ tries' = 0
                  /\ total_time' = 0
                  /\ pc' = IF c.res.status = RateLimited THEN "logs_backoff"
                            ELSE IF c.res.status = NotFound THEN "logs_404"
                            ELSE "logs_parse"
                  /\ UNCHANGED outcome
    /\ UNCHANGED <<remoteVars, unitVars, fileVars, runVars, loopVars, logIDs,
                   short_log, observe>>

\* elif 404: time.sleep(35); r = _call_ids_API(ids); 404: return DataFrame()
fetch_logs_404 ==
    /\ pc = "logs_404"
    /\ \E c \in call_ids_API(logIDs) :
          /\ Affordable(c)
          /\ faultsLeft' = faultsLeft - c.cost
          /\ trace' = Log(<<SleepEv(IdsRequest(logIDs), Cooldown)>> \o c.ev)
          /\ IF IsRaised(c.res)
             THEN Raise(c.res.body) /\ UNCHANGED short_log
             ELSE IF c.res.status = NotFound
             THEN ReturnLogs(<<>>)
             ELSE /\ r' = c.res
                  /\ pc' = "logs_parse"
                  /\ UNCHANGED <<tries, total_time, outcome, short_log>>
    /\ UNCHANGED <<remoteVars, unitVars, fileVars, runVars, loopVars, logIDs,
                   observe>>

\* try: data = json.loads(r.text) except: sleep; logs = [ShortLog(log) ...]
fetch_logs_parse ==
    /\ pc = "logs_parse"
    /\ IF json_loads(r) # "ok"
       THEN /\ trace' = Log(<<SleepEv(IdsRequest(logIDs), Cooldown)>>)
            /\ pc' = "logs_retry"
            /\ UNCHANGED <<r, tries, total_time, outcome, short_log>>
       ELSE /\ trace' = trace
            /\ IF ShortLogs_of(r) # "ok"
               THEN Raise(ShortLogs_of(r)) /\ UNCHANGED short_log
               ELSE ReturnLogs(concat_logs(corpus, logIDs))
    /\ UNCHANGED <<remoteVars, unitVars, fileVars, runVars, loopVars, logIDs,
                   observe, faultsLeft>>

\* The request of the retry: r = _call_ids_API(id)
RetryRequest(ids) == BuiltinIdRequest

\* r = _call_ids_API(id); data = json.loads(r.text)
fetch_logs_retry ==
    /\ pc = "logs_retry"
    /\ \E c \in call_API(RetryRequest(logIDs)) :
          /\ Affordable(c)
          /\ faultsLeft' = faultsLeft - c.cost
          /\ trace' = Log(c.ev)
          /\ IF IsRaised(c.res)
             THEN Raise(c.res.body) /\ UNCHANGED short_log
             ELSE IF json_loads(c.res) # "ok"
             THEN Raise(json_loads(c.res)) /\ UNCHANGED short_log
             ELSE IF ShortLogs_of(c.res) # "ok"
             THEN Raise(ShortLogs_of(c.res)) /\ UNCHANGED short_log
             ELSE ReturnLogs(concat_logs(corpus, logIDs))
    /\ UNCHANGED <<remoteVars, unitVars, fileVars, runVars, loopVars, logIDs,
                   observe>>

----------------------------------------------------------------------------
(* scrape_log *)
\* read_parquet not finding the file of an earlier invocation
read_parquet_missing(file) == <<>>

\* pd.read_parquet(...); FileNotFoundError: pd.DataFrame()
read_parquet(file) == file

\* df["id"].unique()
unique_ids(table) == {table[k].id : k \in 1..Len(table)}

\* click.confirm called with abort=False: a refusal is only returned
click_confirm_no_abort(ans) == FALSE

\* click.confirm(..., abort=True) raises Abort when the answer is no
click_confirm(ans) == ~ans

\* from_scratch: confirm or force, then df = DataFrame(), remove the long
\* csv; else load the old parquet
scrape_log_start ==
    /\ pc = "start"
    /\ IF from_scratch
       THEN   IF ~force /\ click_confirm(answer)
              THEN /\ Raise("Abort")
                   /\ UNCHANGED <<df, oldIDs, newLogsParsed, longCsv>>
              ELSE /\ df' = <<>>
                   /\ oldIDs' = {}
                   /\ longCsv' = FALSE
                   /\ newLogsParsed' = 0
                   /\ pc' = "loop"
                   /\ UNCHANGED <<outcome, r, tries, total_time>>
       ELSE /\ df' = read_parquet(persisted)
            /\ oldIDs' = unique_ids(read_parquet(persisted))
            /\ newLogsParsed' = 0
            /\ pc' = "loop"
            /\ UNCHANGED <<outcome, r, tries, total_time, longCsv>>
    /\ UNCHANGED <<remoteVars, unitVars, persisted, runVars, batches, logIDs,
                   short_log, trace, observe, faultsLeft>>

\* the loop test written with <= in place of <
loop_condition_le(budget, parsed) == budget = <<>> \/ parsed <= budget[1]

\* while max_logs is None or newLogsParsed < max_logs
loop_condition(budget, parsed) == budget = <<>> \/ parsed < budget[1]

scrape_log_loop ==
    /\ pc = "loop"
    /\ IF loop_condition(max_logs, newLogsParsed)
       THEN /\ newLogsParsed < MaxParsed
            /\ pc' = "ids_call"
            /\ UNCHANGED outcome
       ELSE /\ pc' = "done"
            /\ outcome' = "budget"
    /\ trace' = <<>>
    /\ UNCHANGED <<remoteVars, unitVars, fileVars, runVars, loopVars, logIDs,
                   short_log, r, tries, total_time, observe, faultsLeft>>

\* nLogs = len(logIDs); if nLogs == 0: break; else fetch_logs(logIDs)
scrape_log_got_ids ==
    /\ pc = "got_ids"
    /\ IF Len(logIDs) = 0
       THEN /\ pc' = "done"
            /\ outcome' = "empty"
       ELSE /\ pc' = "logs_call"
            /\ UNCHANGED outcome
    /\ trace' = <<>>
    /\ UNCHANGED <<remoteVars, unitVars, fileVars, runVars, loopVars, logIDs,
                   short_log, r, tries, total_time, observe, faultsLeft>>

\* df = pd.concat([df, short_log])
concat(table, rows) == table \o rows

\* to_parquet called on the frame of the batch instead of df
to_parquet_batch(table) == short_log

\* df.to_parquet(...): the file written for the frame
to_parquet(table) == table

\* df = concat; newLogsParsed += nLogs; oldIDs = df["id"].unique(); save
scrape_log_append ==
    /\ pc = "append"
    /\ df' = concat(df, short_log)
    /\ newLogsParsed' = newLogsParsed + Len(logIDs)
    /\ IF concat(df, short_log) = <<>>
       THEN \* a frame without rows has no "id" column
            /\ Raise("KeyError")
            /\ UNCHANGED <<oldIDs, persisted, batches>>
       ELSE /\ oldIDs' = unique_ids(concat(df, short_log))
            /\ persisted' = to_parquet(concat(df, short_log))
            /\ batches' = batches + 1
            /\ pc' = "loop"
            /\ UNCHANGED <<outcome, r, tries, total_time>>
    /\ UNCHANGED <<remoteVars, unitVars, longCsv, runVars, logIDs, short_log,
                   trace, observe, faultsLeft>>

----------------------------------------------------------------------------
(* The command line: one scrape_log invocation after the other *)
Budgets == {<<>>} \cup {<<b>> : b \in 0..MaxBudget}

Arguments(fs, f, ml) ==
    /\ fs \in BOOLEAN
    /\ f \in IF fs THEN BOOLEAN ELSE {FALSE}
    /\ ml \in Budgets

\* The user is asked only when from_scratch is set and force is not
Answers(fs, f) == IF fs /\ ~f THEN BOOLEAN ELSE {TRUE}

NoInput == "none"
NoResult == [kind |-> "none"]

NoRun == [outcome |-> "none", budgeted |-> FALSE]

\* The same --page-size is given to every invocation

boss ==
    /\ pc \in {"done", "aborted"}
    /\ run < MaxRuns
    /\ run' = run + 1
    /\ last' = [outcome |-> IF pc = "done" THEN outcome ELSE "raised",
                budgeted |-> max_logs # <<>>]
    /\ persisted0' = persisted
    /\ Arguments(from_scratch', force', max_logs')
    /\ answer' \in Answers(from_scratch', force')
    /\ UNCHANGED page_size
    /\ df' = <<>>
    /\ oldIDs' = {}
    /\ newLogsParsed' = 0
    /\ batches' = 0
    /\ logIDs' = <<>>
    /\ short_log' = <<>>
    /\ pc' = "start"
    /\ outcome' = "running"
    /\ trace' = <<>>
    /\ UNCHANGED <<remoteVars, unitVars, fileVars, r, tries, total_time, observe,
                   faultsLeft>>

Init ==
    /\ corpus \in Corpora
    /\ persisted = <<>>
    /\ longCsv = TRUE
    /\ run = 1
    /\ last = NoRun
    /\ persisted0 = <<>>
    /\ Arguments(from_scratch, force, max_logs)
    /\ answer \in Answers(from_scratch, force)
    /\ input = NoInput
    /\ result = NoResult
    /\ page_size \in PageSizes
    /\ df = <<>>
    /\ oldIDs = {}
    /\ newLogsParsed = 0
    /\ batches = 0
    /\ logIDs = <<>>
    /\ short_log = <<>>
    /\ pc = "start"
    /\ outcome = "running"
    /\ r = NoResp
    /\ tries = 0
    /\ total_time = 0
    /\ trace = <<>>
    /\ observe = FALSE
    /\ faultsLeft = MaxFaults

Next ==
    \/ boss
    \/ scrape_log_start
    \/ scrape_log_loop
    \/ scrape_log_got_ids
    \/ scrape_log_append
    \/ fetch_IDs_call
    \/ fetch_IDs_parse
    \/ fetch_IDs_retry
    \/ fetch_logs_call
    \/ fetch_logs_404
    \/ fetch_logs_parse
    \/ fetch_logs_retry
    \/ exponential_backoff

Spec == Init /\ [][Next]_vars

----------------------------------------------------------------------------
(* One observed call of fetch_IDs or fetch_logs *)
RECURSIVE Ascending(_)
Ascending(S) ==
    IF S = {} THEN <<>>
    ELSE LET m == CHOOSE x \in S : \A y \in S : x <= y
         IN <<m>> \o Ascending(S \ {m})

InitFetch ==
    /\ corpus \in Corpora
    /\ page_size \in PageSizes
    /\ \E known \in SUBSET {i \in 1..Len(corpus) : corpus[i].players > 0} :
          /\ df = concat_logs(corpus, Ascending(known))
          /\ oldIDs = known
          /\ persisted = df
          /\ persisted0 = df
          /\ \/ pc = "ids_call" /\ logIDs = <<>>
             \/ /\ pc = "logs_call"
                /\ logIDs = NewIDs(Page(corpus, PageOf(known, page_size),
                                        page_size), known)
                /\ logIDs # <<>>
    /\ longCsv = TRUE
    /\ run = 1
    /\ last = NoRun
    /\ from_scratch = FALSE
    /\ force = FALSE
    /\ max_logs = <<>>
    /\ answer = TRUE
    /\ input = NoInput
    /\ result = NoResult
    /\ newLogsParsed = 0
    /\ batches = 0
    /\ short_log = <<>>
    /\ outcome = "running"
    /\ r = NoResp
    /\ tries = 0
    /\ total_time = 0
    /\ trace = <<>>
    /\ observe = TRUE
    /\ faultsLeft = MaxFetchFaults

NextFetch ==
    \/ fetch_IDs_call
    \/ fetch_IDs_parse
    \/ fetch_IDs_retry
    \/ fetch_logs_call
    \/ fetch_logs_404
    \/ fetch_logs_parse
    \/ fetch_logs_retry
    \/ exponential_backoff

SpecFetch == InitFetch /\ [][NextFetch]_vars

----------------------------------------------------------------------------
(* Reading the trace of the observed fetch *)
Resps == SelectSeq(trace, LAMBDA e : e.e = "resp")
Waits == SelectSeq(trace, LAMBDA e : e.e = "wait")
CallIdx == {i \in 1..Len(trace) : trace[i].e = "call"}
Count(seq, k) == Cardinality({i \in 1..Len(seq) : seq[i].e = k})

\* The events of the logical call entered at trace[i]
SegEnd(i) ==
    IF \E j \in CallIdx : j > i
    THEN (CHOOSE j \in CallIdx : j > i /\ \A m \in CallIdx : m > i => j <= m) - 1
    ELSE Len(trace)
Seg(i) == SubSeq(trace, i + 1, SegEnd(i))

FetchIsIDs == trace # <<>> /\ trace[1].q.endpoint = "logs"
FetchIsLogs == trace # <<>> /\ trace[1].q.endpoint = "ids"
Ended == pc \in {"got_ids", "append", "aborted"}
ParsePcs == {"ids_parse", "logs_parse"}
RetryPcs == {"ids_retry", "logs_retry"}
LivePcs == {"ids_backoff", "logs_backoff", "ids_parse", "logs_parse",
            "logs_404", "ids_retry", "logs_retry"}
AsResp(e) == [status |-> e.status, body |-> e.body]

\* The responses after the leading run of 429 responses
RECURSIVE DropRateLimited(_)
DropRateLimited(rs) ==
    IF rs # <<>> /\ Head(rs).status = RateLimited
    THEN DropRateLimited(Tail(rs)) ELSE rs

----------------------------------------------------------------------------
(* C2: if the remote answers 429 exactly k >= 1 times and then answers with
   another status, then when that answer arrives the attempt count is k,
   exactly k waits were made, the i-th (from 0) lasting 2^i seconds, and
   the fetch goes on with that answer. *)
C2_BackoffCountsEvery429 ==
    LET rs == Resps
        k == Len(rs) - 1
    IN  ( /\ pc \in ParsePcs
          /\ k >= 1
          /\ \A i \in 1..k : rs[i].status = RateLimited
          /\ rs[k + 1].status # RateLimited )
        => /\ tries = k
           /\ Len(Waits) = k
           /\ \A i \in 1..k : Waits[i].n = Pow2(i - 1)
           /\ r = AsResp(rs[k + 1])

(* C3: every request sent after a 429 response is preceded by a sleep of
   positive duration that started after that response arrived. *)
C3_NoRequestRightAfter429 ==
    \A i, j \in 1..Len(trace) :
        ( /\ i < j
          /\ trace[i].e = "resp" /\ trace[i].status = RateLimited
          /\ trace[j].e = "req" )
        => \E m \in (i + 1)..(j - 1) :
               trace[m].e \in {"sleep", "wait"} /\ trace[m].n > 0

(* C4: a 429 response is never handed to the parser, and every 429 response
   of a finished fetch was followed by a further logical call. *)
C4_RateLimitNeverFatal ==
    /\ pc \in ParsePcs => r.status # RateLimited
    /\ Ended =>
         \A i \in 1..Len(trace) :
             (trace[i].e = "resp" /\ trace[i].status = RateLimited)
             => \E j \in CallIdx : j > i

(* C6: once the body could not be parsed, the fetch has slept the 35 s
   cooldown right after the response, and its next step makes exactly one
   logical call that sends the request of the fetch again; a body that
   parses makes the fetch return, one that does not makes it raise the
   parse error. *)
C6_RetryStep ==
    pc \in RetryPcs =>
        LET n == Len(trace)
            new == SubSeq(trace', n + 1, Len(trace'))
            lst == new[Len(new)]
        IN  /\ trace[n] = SleepEv(trace[1].q, Cooldown)
            /\ trace[n - 1].e = "resp"
            /\ Count(new, "call") = 1
            /\ Count(new, "req") >= 1
            /\ \A i \in 1..Len(new) : new[i].q = trace[1].q
            /\ (lst.e = "resp" /\ lst.body = "data")
                   => pc' \in {"got_ids", "append"}
            /\ (lst.e = "resp" /\ lst.body = "bad")
                   => pc' = "aborted" /\ outcome' = "JSONDecodeError"

C6_MalformedBodyRetry == [][C6_RetryStep]_vars

(* C7: in every logical call at most two requests are sent, all with the
   body of the call; a connection failure of the first is followed by one
   35 s sleep and exactly one more request; the response of the second is
   the result of the call, and its failure is raised to the caller. *)
C7_Call(i) ==
    LET seg == Seg(i)
        q == trace[i].q
        isLast == SegEnd(i) = Len(trace)
    IN  /\ Count(seg, "req") <= 2
        /\ \A m \in 1..Len(seg) : seg[m].e = "req" => seg[m] = ReqEv(q)
        /\ (Len(seg) >= 2 /\ seg[1].e = "req" /\ seg[2].e = "resp")
              => Count(seg, "req") = 1
        /\ (Len(seg) >= 2 /\ seg[1].e = "req" /\ seg[2].e = "fail")
              => /\ Len(seg) >= 5
                 /\ seg[3] = SleepEv(q, Cooldown)
                 /\ seg[4] = ReqEv(q)
                 /\ seg[5].e \in {"resp", "fail"}
                 /\ Count(seg, "req") = 2
                 /\ Count(seg, "sleep") + Count(seg, "wait") =
                       IF Len(seg) > 5 THEN 2 ELSE 1
                 /\ seg[5].e = "fail"
                      => /\ isLast /\ Len(seg) = 5
                         /\ pc = "aborted" /\ outcome = "ConnectionError"
                 /\ (seg[5].e = "resp" /\ isLast /\ pc \in LivePcs)
                      => r = AsResp(seg[5])

C7_ConnectionRetry == \A i \in CallIdx : C7_Call(i)

C7_Witness ==
    /\ pc \in ParsePcs
    /\ \E i \in CallIdx :
          /\ Len(Seg(i)) = 5
          /\ Seg(i)[2].e = "fail"
          /\ Seg(i)[5].e = "resp"
          /\ r = AsResp(Seg(i)[5])

(* C8 as stated: a fetch_IDs whose first response is 404 sleeps the cooldown
   and asks once more, and returns an empty id list when the second
   response is 404 too. *)
C8_NotFoundRetriedThenEmpty ==
    ( /\ FetchIsIDs /\ Ended /\ outcome # "ConnectionError"
      /\ Resps # <<>> /\ Resps[1].status = NotFound )
    => /\ Len(Resps) = 2
       /\ Count(trace, "sleep") >= 1
       /\ Resps[2].status = NotFound => pc = "got_ids" /\ logIDs = <<>>

(* C8 amended: fetch_IDs gives a 404 response no treatment of its own; its
   body decides as for any response that is not 429: JSON without the
   listing raises KeyError at once, and a body that is not JSON is asked
   for once more after the cooldown, the second body deciding alone: not
   JSON again raises JSONDecodeError, JSON without the listing raises
   KeyError, so a second 404 never gives an empty id list. *)
C8_NotFoundIsParsed ==
    ( /\ FetchIsIDs /\ Ended /\ outcome # "ConnectionError"
      /\ Resps # <<>> /\ Resps[1].status = NotFound )
    => LET a == Resps[1]
           returned == pc = "got_ids" /\ logIDs = NewIDs(ThePage, oldIDs)
           raised(exc) == pc = "aborted" /\ outcome = exc
           p == CHOOSE i \in 1..Len(trace) : trace[i].e = "resp"
       IN  /\ a.body = "other" => Len(Resps) = 1 /\ raised("KeyError")
           /\ a.body = "bad" =>
                /\ Len(Resps) = 2
                /\ Cardinality(CallIdx) = 2
                /\ trace[p + 1] = SleepEv(trace[1].q, Cooldown)
                /\ Resps[2].body = "bad" => raised("JSONDecodeError")
                /\ Resps[2].body = "other" => raised("KeyError")
                /\ Resps[2].body = "data" => returned
                /\ Resps[2].status = NotFound => pc = "aborted"

C8_Witness ==
    /\ FetchIsIDs /\ Ended
    /\ Len(Resps) = 2
    /\ \A i \in 1..2 : Resps[i].status = NotFound /\ Resps[i].body = "bad"
    /\ pc = "aborted" /\ outcome = "JSONDecodeError"

(* C9: a fetch_logs that got nothing but 404 after the rate limiting (the
   first response or the one the backoff ended with, and every response
   after it) returns an empty frame and does not raise. *)
C9_PersistentNotFoundIsEmpty ==
    LET rs == DropRateLimited(Resps)
    IN  ( /\ FetchIsLogs /\ Ended /\ outcome # "ConnectionError"
          /\ rs # <<>>
          /\ \A i \in 1..Len(rs) : rs[i].status = NotFound )
        => pc = "append" /\ short_log = <<>>

----------------------------------------------------------------------------
LogsPcs == {"logs_call", "logs_backoff", "logs_404", "logs_parse",
            "logs_retry"}
IdSet(ids) == {ids[k] : k \in 1..Len(ids)}
IsPrefix(a, b) == Len(a) <= Len(b) /\ SubSeq(b, 1, Len(a)) = a

(* C1: when the previous invocation had no budget and ended on an empty id
   page, an invocation in resume mode (same page size, same corpus) gets no
   new id from fetch_IDs, never calls fetch_logs, and leaves the persisted
   table as it found it. *)
C1_Resumable ==
    ( /\ run > 1
      /\ last.outcome = "empty" /\ ~last.budgeted
      /\ ~from_scratch )
    => /\ logIDs = <<>>
       /\ pc \notin LogsPcs \cup {"append"}
       /\ newLogsParsed = 0 /\ batches = 0
       /\ persisted = persisted0

C1_Witness ==
    /\ run > 1
    /\ last.outcome = "empty" /\ ~last.budgeted
    /\ ~from_scratch
    /\ pc = "done" /\ outcome = "empty"
    /\ Len(corpus) >= 2
    /\ oldIDs = 1..Len(corpus)
    /\ persisted # <<>>

(* C5: once a batch is completed the persisted table equals the accumulated
   table df (in resume mode the rows persisted before, then the rows of
   every completed batch), and it is written when the batch completes,
   before the next id listing; nothing else writes it, so when a fetch
   raises the persisted table is the one of the last completed batch (the
   one found at the start if there is none) and holds no row of the batch
   that failed. *)
C5_Inv ==
    /\ batches > 0 => persisted = df /\ df # <<>>
    /\ (batches = 0 /\ pc # "start") => persisted = persisted0
    /\ (~from_scratch /\ pc # "start") => IsPrefix(persisted0, df)

C5_Step ==
    /\ (pc = "append" /\ pc' = "loop")
          => /\ df' = df \o short_log
             /\ persisted' = df'
             /\ batches' = batches + 1
    /\ persisted' # persisted => pc = "append" /\ pc' = "loop"
    /\ (pc # "aborted" /\ pc' = "aborted")
          => /\ persisted' = persisted
             /\ batches' = batches
             /\ ( /\ pc \in LogsPcs \cup {"append"}
                  /\ batches > 0 \/ ~from_scratch )
                  => \A k \in 1..Len(persisted') :
                         persisted'[k].id \notin IdSet(logIDs)

C5_DurablePerBatch == [](C5_Inv) /\ [][C5_Step]_vars

C5_Witness ==
    /\ pc = "aborted"
    /\ batches > 0
    /\ persisted = df
    /\ logIDs # <<>>
    /\ \A k \in 1..Len(persisted) : persisted[k].id \notin IdSet(logIDs)

(* C10: after an invocation with from_scratch that was confirmed or forced,
   however it ended, the persisted table holds the rows accumulated by this
   invocation and nothing persisted before it; and the ids it treats as
   known are ids of rows it fetched itself. *)
C10_FromScratchDiscards ==
    /\ (from_scratch /\ outcome # "Abort" /\ pc \in {"done", "aborted"})
          => persisted = df
    /\ (from_scratch /\ outcome # "Abort" /\ pc # "start")
          => oldIDs \subseteq unique_ids(df)

----------------------------------------------------------------------------
FetchPcs == {"ids_call", "ids_backoff", "ids_parse", "ids_retry", "got_ids",
             "append"} \cup LogsPcs

(* C11: an invocation with from_scratch, without force, whose confirmation
   is refused goes from its start straight to Abort: it never reaches the
   loop or a remote call, and the step that aborts it leaves the parquet
   table and the long csv file as they were; the long csv file is removed
   only at the start of an invocation with from_scratch that is forced or
   confirmed. *)
C11_Inv ==
    (from_scratch /\ ~force /\ ~answer)
    => /\ pc \in {"start", "aborted"}
       /\ pc = "aborted" => outcome = "Abort"
       /\ persisted = persisted0
       /\ batches = 0 /\ logIDs = <<>> /\ r = NoResp

C11_Step ==
    /\ (pc = "start" /\ from_scratch /\ ~force /\ ~answer)
          => /\ pc' = "aborted" /\ outcome' = "Abort"
             /\ UNCHANGED <<persisted, longCsv, df, faultsLeft, trace>>
    /\ longCsv' # longCsv
          => pc = "start" /\ from_scratch /\ (force \/ answer)
    /\ (pc = "start" /\ persisted' # persisted) => FALSE

C11_NoLossBeforeConfirm == [](C11_Inv) /\ [][C11_Step]_vars

C11_Witness ==
    /\ from_scratch /\ ~force /\ ~answer
    /\ pc = "aborted" /\ outcome = "Abort"
    /\ persisted # <<>> /\ longCsv

----------------------------------------------------------------------------
Budgeted == max_logs # <<>>
Spent == Budgeted /\ newLogsParsed >= max_logs[1]

(* C12: with a budget B, once newLogsParsed >= B the invocation is outside
   fetch_IDs and fetch_logs and its next loop test ends the loop; a batch
   is counted whole (newLogsParsed grows by the length of the id list that
   was fetched); when the loop ends by budget after at least one batch,
   newLogsParsed - B is smaller than the length of the last batch, which is
   at most page_size; and an empty id list ends the loop whatever the
   budget. *)
C12_Inv ==
    /\ Spent => pc \notin FetchPcs
    /\ (pc = "done" /\ outcome = "budget")
          => /\ Spent
             /\ batches > 0
                  => /\ newLogsParsed - max_logs[1] < Len(logIDs)
                     /\ Len(logIDs) <= page_size
                     /\ newLogsParsed - max_logs[1] < page_size
    /\ (pc = "done" /\ outcome = "empty") => logIDs = <<>>

C12_Step ==
    /\ (pc = "loop" /\ Spent) => pc' = "done" /\ outcome' = "budget"
    /\ (pc = "loop" /\ pc' = "ids_call") => ~Spent
    /\ (pc = "append" /\ pc' = "loop")
          => newLogsParsed' = newLogsParsed + Len(logIDs)
    /\ newLogsParsed' > newLogsParsed => pc = "append"
    /\ (pc = "got_ids" /\ logIDs = <<>>)
          => pc' = "done" /\ outcome' = "empty"

C12_BudgetedTermination == [](C12_Inv) /\ [][C12_Step]_vars

C12_Witness ==
    /\ pc = "done" /\ outcome = "budget"
    /\ max_logs = <<1>> /\ page_size = 2
    /\ newLogsParsed = 2 /\ Len(logIDs) = 2

----------------------------------------------------------------------------
(* Functions called on their own: the pipeline is at rest *)
Idle ==
    /\ corpus = <<>>
    /\ persisted = <<>>
    /\ longCsv = TRUE
    /\ run = 1
    /\ last = NoRun
    /\ persisted0 = <<>>
    /\ from_scratch = FALSE
    /\ force = FALSE
    /\ page_size \in PageSizes /\ \A s \in PageSizes : page_size <= s
    /\ max_logs = <<>>
    /\ answer = TRUE
    /\ df = <<>>
    /\ oldIDs = {}
    /\ newLogsParsed = 0
    /\ batches = 0
    /\ logIDs = <<>>
    /\ short_log = <<>>
    /\ outcome = "running"
    /\ r = NoResp
    /\ tries = 0
    /\ total_time = 0
    /\ trace = <<>>
    /\ observe = TRUE
    /\ faultsLeft = 0

pipelineVars == <<remoteVars, fileVars, runVars, loopVars, logIDs, short_log,
                  r, tries, total_time, trace, observe, faultsLeft>>

\* Optional[...]: <<>> is None, <<v>> is the value v
None == <<>>
Some(v) == <<v>>

----------------------------------------------------------------------------
(* Filter *)
\* The keys of BOSSES as (boss, gate): "Echidna G1" is boss Echidna, gate 1
BossGates ==
    {[boss |-> "Argeos", gate |-> None],
     [boss |-> "Echidna", gate |-> Some(1)],
     [boss |-> "Echidna", gate |-> Some(2)],
     [boss |-> "Behemoth", gate |-> Some(1)],
     [boss |-> "Behemoth", gate |-> Some(2)],
     [boss |-> "Aegir", gate |-> Some(1)],
     [boss |-> "Aegir", gate |-> Some(2)]}

\* difficulty: Literal["Normal", "Hard", ""], None from scrape_log
Difficulties == {Some("Normal"), Some("Hard"), Some(""), None}
Orders == {"asc", "desc"}

\* Filter(boss=, gate=, difficulty=, order=)
Filters ==
    {[boss |-> e.boss, gate |-> e.gate, difficulty |-> d, order |-> o] :
        e \in BossGates, d \in Difficulties, o \in Orders}

\* f"{x}" of an Optional[str] and of an int
format_str(x) == IF x = None THEN "None" ELSE x[1]
format_int(n) == ToString(n)

\* Filter.to_name
to_name(self) ==
    IF self.gate = None
    THEN self.boss
    ELSE self.boss \o "_G" \o format_int(self.gate[1]) \o "_"
             \o format_str(self.difficulty)

\* two filters are built and named
Filter_to_name ==
    /\ pc = "to_name"
    /\ result' = [kind |-> "names", a |-> to_name(input.a),
                  b |-> to_name(input.b)]
    /\ pc' = "returned"
    /\ UNCHANGED <<pipelineVars, df, oldIDs, newLogsParsed, batches, outcome,
                   input>>

InitFilter ==
    /\ Idle
    /\ pc = "to_name"
    /\ input \in [a : Filters, b : Filters]
    /\ result = NoResult

NextFilter == Filter_to_name

SpecFilter == InitFilter /\ [][NextFilter]_vars

Triple(f) == <<f.boss, f.gate, f.difficulty>>

(* C13: the keys of two filters are equal exactly when the filters have the
   same boss, the same gate and the same difficulty. *)
C13_CacheKeyInjective ==
    result.kind = "names"
    => (result.a = result.b <=> Triple(input.a) = Triple(input.b))

----------------------------------------------------------------------------
(* ShortLog, PlayerOverview, classify_weird *)
MaxSupports == 4    \* players with a support spec in a raw encounter
MaxOdd == 1         \* players of each unusual kind in a raw encounter
PartySizes == {0, 1, 4, 7, 8, 16}   \* player records of a raw encounter
TotalDpsValues == {0, 1000}

SUPPORTS == {"Full Bloom", "Blessed Aura", "Desperate Salvation"}

\* Python values as they reach a row of the frame
PyStr(x) == <<"str", x>>
PyInt(x) == <<"int", x>>
PyBool(x) == <<"bool", x>>
PyFloat(x) == <<"float", x>>
PyDatetime(x) == <<"datetime", x>>

\* a / b between numbers
truediv(a, b) == [num |-> a, den |-> b]

\* A raw player record of each kind
RawPlayer(kind, k) ==
    [name |-> "p" \o ToString(k),
     class |-> CASE kind = "support" -> "Bard"
                 [] kind = "princess" -> "Gunlancer"
                 [] kind = "unknown" -> "Unknown"
                 [] OTHER -> "Berserker",
     spec |-> CASE kind = "support" -> Some("Desperate Salvation")
                [] kind = "princess" -> Some("Princess")
                [] kind = "unknown" -> Some("Unknown")
                [] kind = "absent" -> None
                [] OTHER -> Some("Mayhem"),
     dps |-> 250,
     gearScore |-> 1680,
     isDead |-> FALSE,
     deaths |-> 0,
     arkPassiveActive |-> IF kind = "support" THEN Some(TRUE) ELSE None]

\* n players: the supports, the Princess, the Unknown, those without a
\* spec, then damage dealers
RawPlayers(n, nSup, nPrin, nUnk, nAbs) ==
    [k \in 1..n |->
        RawPlayer(IF k <= nSup THEN "support"
                  ELSE IF k <= nSup + nPrin THEN "princess"
                  ELSE IF k <= nSup + nPrin + nUnk THEN "unknown"
                  ELSE IF k <= nSup + nPrin + nUnk + nAbs THEN "absent"
                  ELSE "dealer", k)]

\* How many supports, Princess, Unknown and spec-less players
Compositions ==
    (0..MaxSupports) \X (0..MaxOdd) \X (0..MaxOdd) \X (0..MaxOdd)

RawEncounter(n, t, c) ==
    [id |-> 1,
     uploadedAt |-> "2024-12-31T00:00:00Z",
     boss |-> "Aegir, the Oppressor",
     difficulty |-> "Hard",
     timestamp |-> 1735603200,
     duration |-> 300,
     version |-> "1.0",
     localPlayer |-> "p1",
     region |-> "EUC",
     totalDamageDealt |-> 300000,
     totalDps |-> t,
     minGearScore |-> 1680,
     maxGearScore |-> 1680,
     playerOverviews |-> RawPlayers(n, c[1], c[2], c[3], c[4])]

RawEncounters ==
    {RawEncounter(x[1], x[2], x[3]) :
        x \in {y \in PartySizes \X TotalDpsValues \X Compositions :
                  y[3][1] + y[3][2] + y[3][3] + y[3][4] <= y[1]}}

\* PlayerOverview.__init__ (log.totalDps is not 0)
PlayerOverview(player, log) ==
    [name |-> player.name,
     id |-> log.id,
     class_ |-> player.class,
     spec |-> IF player.spec # None THEN player.spec[1] ELSE player.class,
     dps |-> player.dps,
     percent |-> truediv(player.dps, log.totalDps),
     gearScore |-> player.gearScore,
     isDead |-> player.isDead,
     deaths |-> player.deaths,
     arkPassiveActive |-> IF player.arkPassiveActive # None
                          THEN player.arkPassiveActive[1] ELSE FALSE,
     hasSpec |-> player.spec # None]

\* classify_weird without the Princess rule
classify_weird_no_princess(encounter) ==
    LET nPlayers == Len(encounter.playerOverviews)
        player_specs == [k \in 1..nPlayers |->
                            encounter.playerOverviews[k].spec]
        nSupports == Len(SelectSeq(player_specs, LAMBDA x : x \in SUPPORTS))
    IN  IF nPlayers \notin {4, 8, 16} THEN TRUE
        ELSE IF (nPlayers \div 4) # nSupports THEN TRUE
        ELSE IF \E k \in 1..nPlayers : player_specs[k] = "Unknown" THEN TRUE
        ELSE FALSE

\* classify_weird
classify_weird(encounter) ==
    LET nPlayers == Len(encounter.playerOverviews)
        player_specs == [k \in 1..nPlayers |->
                            encounter.playerOverviews[k].spec]
        nSupports == Len(SelectSeq(player_specs, LAMBDA x : x \in SUPPORTS))
    IN  IF nPlayers \notin {4, 8, 16} THEN TRUE
        ELSE IF \E k \in 1..nPlayers : player_specs[k] = "Princess" THEN TRUE
        ELSE IF (nPlayers \div 4) # nSupports THEN TRUE
        ELSE IF \E k \in 1..nPlayers : player_specs[k] = "Unknown" THEN TRUE
        ELSE FALSE

\* parser.isoparse
isoparse(x) == PyDatetime(x)

\* ShortLog.__init__: the object, or the exception of the first division
ShortLog(encounter) ==
    IF encounter.playerOverviews # <<>> /\ encounter.totalDps = 0
    THEN [kind |-> "raised", exc |-> "ZeroDivisionError"]
    ELSE LET po == [k \in 1..Len(encounter.playerOverviews) |->
                      PlayerOverview(encounter.playerOverviews[k], encounter)]
         IN [kind |-> "ShortLog",
             log |-> [id |-> encounter.id,
                      uploadedAt |-> isoparse(encounter.uploadedAt),
                      boss |-> encounter.boss,
                      difficulty |-> encounter.difficulty,
                      timestamp |-> encounter.timestamp,
                      duration |-> encounter.duration,
                      version |-> encounter.version,
                      localPlayer |-> encounter.localPlayer,
                      region |-> encounter.region,
                      totalDamageDealt |-> encounter.totalDamageDealt,
                      totalDps |-> encounter.totalDps,
                      minGearScore |-> encounter.minGearScore,
                      maxGearScore |-> encounter.maxGearScore,
                      playerOverviews |-> po,
                      weird |-> classify_weird([playerOverviews |-> po])]]

\* The row of one player, short=True
short_row(self, player) ==
    "id" :> PyInt(self.id) @@
    "name" :> PyStr(player.name) @@
    "spec" :> PyStr(player.spec) @@
    "gearscore" :> PyInt(player.gearScore) @@
    "dps" :> PyInt(player.dps) @@
    "percent" :> PyFloat(player.percent) @@
    "timestamp" :> PyInt(self.timestamp) @@
    "duration" :> PyInt(self.duration) @@
    "isDead" :> PyBool(player.isDead) @@
    "weird" :> PyBool(self.weird) @@
    "arkPassiveActive" :> PyBool(player.arkPassiveActive) @@
    "localPlayer" :> PyBool(self.localPlayer = player.name) @@
    "hasSpec" :> PyBool(player.hasSpec)

\* The row of one player, short=False
long_row(self, player) ==
    "id" :> PyInt(self.id) @@
    "uploadedAt" :> self.uploadedAt @@
    "boss" :> PyStr(self.boss) @@
    "difficulty" :> PyStr(self.difficulty) @@
    "timestamp" :> PyInt(self.timestamp) @@
    "duration" :> PyInt(self.duration) @@
    "version" :> PyStr(self.version) @@
    "localPlayer" :> PyStr(self.localPlayer) @@
    "region" :> PyStr(self.region) @@
    "totalDamageDealt" :> PyInt(self.totalDamageDealt) @@
    "totalDps" :> PyInt(self.totalDps) @@
    "minGearScore" :> PyInt(self.minGearScore) @@
    "maxGearScore" :> PyInt(self.maxGearScore) @@
    "name" :> PyStr(player.name) @@
    "class" :> PyStr(player.class_) @@
    "spec" :> PyStr(player.spec) @@
    "dps" :> PyInt(player.dps) @@
    "percent" :> PyFloat(player.percent) @@
    "gearScore" :> PyInt(player.gearScore) @@
    "isDead" :> PyBool(player.isDead) @@
    "deaths" :> PyInt(player.deaths) @@
    "arkPassiveActive" :> PyBool(player.arkPassiveActive) @@
    "weird" :> PyBool(self.weird) @@
    "hasSpec" :> PyBool(player.hasSpec)

\* ShortLog.to_dataframe(short): one row per player
ShortLog_to_dataframe(self, short) ==
    [k \in 1..Len(self.playerOverviews) |->
        IF short THEN short_row(self, self.playerOverviews[k])
        ELSE long_row(self, self.playerOverviews[k])]

\* log = ShortLog(encounter)
ShortLog_init ==
    /\ pc = "parse"
    /\ result' = ShortLog(input)
    /\ IF ShortLog(input).kind = "raised"
       THEN Raise(ShortLog(input).exc)
       ELSE pc' = "parsed" /\ UNCHANGED <<outcome, r, tries, total_time>>
    /\ UNCHANGED <<remoteVars, fileVars, runVars, loopVars, logIDs,
                   short_log, trace, observe, faultsLeft, input>>

\* log.to_dataframe(short=True) and log.to_dataframe(short=False)
to_dataframe_call ==
    /\ pc = "parsed"
    /\ result' = [kind |-> "frames", log |-> result.log,
                  short |-> ShortLog_to_dataframe(result.log, TRUE),
                  long |-> ShortLog_to_dataframe(result.log, FALSE)]
    /\ pc' = "returned"
    /\ UNCHANGED <<pipelineVars, df, oldIDs, newLogsParsed, batches, outcome,
                   input>>

InitParse ==
    /\ Idle
    /\ pc = "parse"
    /\ input \in RawEncounters
    /\ result = NoResult

NextParse ==
    \/ ShortLog_init
    \/ to_dataframe_call

SpecParse == InitParse /\ [][NextParse]_vars

----------------------------------------------------------------------------
Parsed == result.kind \in {"ShortLog", "frames"}
Specs == {result.log.playerOverviews[k].spec :
             k \in 1..Len(result.log.playerOverviews)}
NPlayers == Len(result.log.playerOverviews)
NSupports ==
    Cardinality({k \in 1..NPlayers :
                    result.log.playerOverviews[k].spec \in SUPPORTS})

(* C14: for every player row, every field name of the short projection is
   a field name of the long projection, and a field with the same name has
   the same value in both rows. *)
C14_ShortWithinLong ==
    result.kind = "frames"
    => \A k \in 1..Len(result.short) :
           /\ DOMAIN result.short[k] \subseteq DOMAIN result.long[k]
           /\ \A f \in DOMAIN result.short[k] \cap DOMAIN result.long[k] :
                  result.short[k][f] = result.long[k][f]

(* C15: the flag weird of a parsed encounter is true exactly when the
   player count is not 4, 8 or 16, or a player has the spec Princess, or
   the number of players with a support spec is not a quarter of the player
   count, or a player has the spec Unknown; so 8 players with 2 supports
   and neither Princess nor Unknown are not weird, 7 players are weird, and
   a Princess makes any encounter weird. *)
C15_WeirdIffRule ==
    Parsed
    => /\ result.log.weird
            <=> \/ NPlayers \notin {4, 8, 16}
                \/ "Princess" \in Specs
                \/ 4 * NSupports # NPlayers
                \/ "Unknown" \in Specs
       /\ (NPlayers = 8 /\ NSupports = 2 /\ "Princess" \notin Specs
              /\ "Unknown" \notin Specs) => ~result.log.weird
       /\ NPlayers = 7 => result.log.weird
       /\ "Princess" \in Specs => result.log.weird

C15_Witness ==
    /\ Parsed
    /\ NPlayers = 8 /\ NSupports = 2
    /\ "Princess" \notin Specs /\ "Unknown" \notin Specs
    /\ ~result.log.weird

(* C16: a parsed encounter with a player whose raw spec field was absent is
   weird. *)
C16_AbsentSpecIsWeird ==
    Parsed
    => ((\E k \in 1..NPlayers : ~result.log.playerOverviews[k].hasSpec)
           => result.log.weird)

(* C17: parsing a raw encounter whose totalDps is 0 raises and yields no
   ShortLog. *)
C17_ZeroTotalDpsRaises ==
    (pc # "parse" /\ input.totalDps = 0)
    => /\ result.kind = "raised"
       /\ pc = "aborted"

----------------------------------------------------------------------------
(* update_logs *)
UpdateIds == {<<>>, <<1>>, <<1, 2>>}
UpdateSpecs == {<<>>, <<"Mayhem">>}
UpdatePageSizes == {10, 25, 26}

UpdateArguments ==
    {[boss |-> e.boss, gate |-> e.gate, difficulty |-> d, ids |-> i,
      specs |-> b, page_size |-> n] :
        e \in BossGates, d \in Difficulties, i \in UpdateIds,
        b \in UpdateSpecs, n \in UpdatePageSizes}

\* pd.read_csv(f"./data_long/{filter.to_name()}_long.csv")
ReadCsvEv(a) ==
    Ev("read_csv",
       [endpoint |-> "file", json |-> <<to_name(a)>>, serialisable |-> TRUE],
       NoResp, 0)

\* update_logs with its first statement taken out: the argument tests,
\* then the long csv is read
update_logs_without_raise(a) ==
    IF a.page_size > 25 THEN [exc |-> "ValueError", ev |-> <<>>]
    ELSE IF Len(a.ids) > 0 /\ Len(a.specs) > 0
    THEN [exc |-> "ValueError", ev |-> <<>>]
    ELSE [exc |-> "none", ev |-> <<ReadCsvEv(a)>>]

\* update_logs up to the statement that ends it:
\* raise NotImplementedError("This function is not updated yet.")
update_logs_body(a) == [exc |-> "NotImplementedError", ev |-> <<>>]

update_logs ==
    /\ pc = "update_logs"
    /\ LET b == update_logs_body(input)
       IN /\ trace' = Log(b.ev)
          /\ IF b.exc = "none"
             THEN /\ result' = [kind |-> "returned"]
                  /\ pc' = "returned"
                  /\ UNCHANGED <<outcome, r, tries, total_time>>
             ELSE /\ result' = [kind |-> "raised", exc |-> b.exc]
                  /\ Raise(b.exc)
    /\ UNCHANGED <<remoteVars, fileVars, runVars, loopVars, logIDs,
                   short_log, observe, faultsLeft, input>>

InitUpdate ==
    /\ Idle
    /\ pc = "update_logs"
    /\ input \in UpdateArguments
    /\ result = NoResult

NextUpdate == update_logs

SpecUpdate == InitUpdate /\ [][NextUpdate]_vars

(* C18: whatever its arguments, update_logs ends by raising
   NotImplementedError, having sent no request, read no file and changed
   no file; it never returns. *)
C18_UpdateAlwaysRaises ==
    /\ pc \in {"update_logs", "aborted"}
    /\ pc = "aborted"
         => /\ outcome = "NotImplementedError"
            /\ result = [kind |-> "raised", exc |-> "NotImplementedError"]
            /\ trace = <<>>
            /\ persisted = persisted0 /\ longCsv
            /\ faultsLeft = 0 /\ r = NoResp

C18_Witness ==
    /\ pc = "aborted" /\ outcome = "NotImplementedError"
    /\ input.ids # <<>> /\ input.specs = <<>>
    /\ input.page_size <= 25

----------------------------------------------------------------------------
(* C19: when the next id page is requested after a completed iteration,
   every id of the batch that was handed to fetch_logs is in the known-id
   set, so that each iteration enlarges the known-id set and the loop ends
   on a finite corpus; also when the batch came back empty or an
   encounter of it has no player. *)
C19_BatchBecomesKnown ==
    (pc \in {"loop", "ids_call"} /\ batches > 0)
    => /\ logIDs # <<>>
       /\ IdSet(logIDs) \subseteq oldIDs

----------------------------------------------------------------------------
NoFault == faultsLeft = MaxFaults
AllPlayed == \A i \in 1..Len(corpus) : corpus[i].players > 0
Known == Cardinality(oldIDs)
Smaller(a, b) == IF a < b THEN a ELSE b

(* C20: with an unchanging corpus served in ascending id order, every
   encounter having a player and no call failing, over invocations with
   any budgets and the same page size: the known ids are always the first
   ids of the corpus, the id list got from page count(known) // page_size
   + 1 is exactly the next page_size unknown ids, every completed iteration
   enlarges the known-id set, no invocation raises, and an invocation
   without budget ends only on an empty id list, knowing the whole
   corpus. *)
C20_Inv ==
    (NoFault /\ AllPlayed)
    => /\ oldIDs = 1..Known
       /\ unique_ids(persisted) = 1..Cardinality(unique_ids(persisted))
       /\ pc = "got_ids"
            => logIDs = [k \in 1..Smaller(page_size, Len(corpus) - Known)
                           |-> Known + k]
       /\ pc = "aborted" => outcome = "Abort"
       /\ (pc = "done" /\ max_logs = <<>>) => outcome = "empty"
       /\ (pc = "done" /\ outcome = "empty")
            => /\ oldIDs = 1..Len(corpus)
               /\ unique_ids(persisted) = 1..Len(corpus)
       /\ newLogsParsed <= Len(corpus)

C20_Step ==
    (NoFault /\ AllPlayed /\ pc = "append" /\ pc' = "loop")
    => /\ Cardinality(oldIDs') = Known + Len(logIDs)
       /\ Len(logIDs) > 0
       /\ oldIDs' = unique_ids(persisted')

C20_CompleteAcquisition == [](C20_Inv) /\ [][C20_Step]_vars

C20_Witness ==
    /\ NoFault /\ AllPlayed
    /\ run > 1 /\ last.budgeted /\ last.outcome = "budget"
    /\ ~from_scratch /\ max_logs = <<>>
    /\ persisted0 # <<>> /\ batches > 0
    /\ pc = "done" /\ outcome = "empty"
    /\ Len(corpus) >= 2
    /\ oldIDs = 1..Len(corpus)
    /\ unique_ids(persisted) = 1..Len(corpus)

----------------------------------------------------------------------------
(* C21: the id list fetch_IDs returns holds no known id; an id list
   returned after a completed iteration holds no id of the batch that was
   handed to fetch_logs in that iteration (an id is handed to fetch_logs
   once); and the rows a batch appends belong to ids that have no row in
   the accumulated table yet. *)
C21_Inv ==
    pc = "got_ids" => IdSet(logIDs) \cap oldIDs = {}

C21_Step ==
    /\ (pc # "got_ids" /\ pc' = "got_ids" /\ batches > 0)
          => IdSet(logIDs') \cap IdSet(logIDs) = {}
    /\ (pc = "append" /\ pc' = "loop")
          => unique_ids(short_log) \cap unique_ids(df) = {}

C21_Deduplication == [](C21_Inv) /\ [][C21_Step]_vars

----------------------------------------------------------------------------
\* The ids of the accumulated table when the loop was entered
StartIDs == IF from_scratch THEN {} ELSE unique_ids(read_parquet(persisted0))

(* C22: at every loop head and at the end of an invocation, newLogsParsed
   is the number of distinct ids that are in the accumulated table and were
   not in it when the loop was entered. *)
C22_CountMatchesTable ==
    pc \in {"loop", "done"}
    => newLogsParsed = Cardinality(unique_ids(df) \ StartIDs)

----------------------------------------------------------------------------
BackoffPcs == {"ids_backoff", "logs_backoff"}
RECURSIVE SumN(_)
SumN(evs) == IF evs = <<>> THEN 0 ELSE Head(evs).n + SumN(Tail(evs))

(* C23: in exponential_backoff, at the head of every iteration tries is the
   number of 429 responses the backoff has received, one wait was made for
   each, the first of 1 s and each the double of the one before, and
   total_time is their sum, 2^tries - 1; the backoff returns the first
   response that is not 429, and nothing (no wait, no request) happens
   between its arrival and the return. *)
C23_BackoffAccounting ==
    LET rs == Resps
        n == Len(rs)
        accounted ==
            /\ Len(Waits) = tries
            /\ \A i \in 1..tries : Waits[i].n = Pow2(i - 1)
            /\ \A i \in 1..(tries - 1) : Waits[i + 1].n = 2 * Waits[i].n
            /\ total_time = SumN(Waits)
            /\ total_time = Pow2(tries) - 1
    IN  /\ pc \in BackoffPcs
          => /\ n >= 1
             /\ \A i \in 1..n : rs[i].status = RateLimited
             /\ tries = n - 1
             /\ accounted
             /\ tries > 0 => trace[Len(trace)].e = "wait"
        /\ (pc \in ParsePcs /\ rs[1].status = RateLimited)
          => /\ n >= 2
             /\ \A i \in 1..(n - 1) : rs[i].status = RateLimited
             /\ rs[n].status # RateLimited
             /\ r = AsResp(rs[n])
             /\ trace[Len(trace)].e = "resp"
             /\ tries = n - 2
             /\ accounted

C23_Witness ==
    /\ pc \in ParsePcs
    /\ Resps[1].status = RateLimited
    /\ tries = 2 /\ total_time = 3
    /\ Len(Waits) = 2 /\ Waits[1].n = 1 /\ Waits[2].n = 2
    /\ r.status # RateLimited

====
